---- MODULE Spec2Model ----
(***************************************************************************)
(* A model of the "simple" HTTP server of the PyPI mirror (go/simple.go    *)
(* and its earlier revision simple.go): name canonicalization, the         *)
(* request router, index rendering, project rendering with the presence    *)
(* filter against the mirror root, and the SERIAL footer.                  *)
(*                                                                         *)
(* Strings that the code inspects character by character (project names)   *)
(* are sequences of one-character strings.  A nullable SQL column or a Go  *)
(* pointer is a sequence of length 0 (NULL / nil) or 1 (the value).        *)
(***************************************************************************)
EXTENDS Integers, Sequences, FiniteSets, TLC

VARIABLES
    package,     \* the package table: sequence of rows, in rowid order
    file,        \* the file table: sequence of rows, in rowid order
    disk,        \* the mirror root on disk: relative path -> outcome of os.Stat
    db,          \* the global store handle (var db *sql.DB)
    directory,   \* the global mirror-root path (var directory *string)
    running,     \* TRUE while the server process is alive
    req,         \* per handler goroutine: the request in flight and its response
    call         \* a call of canonicalizeName on its own (SpecCanon)

vars == <<package, file, disk, db, directory, running, req, call>>

(***************************************************************************)
(* Bounds of the model.                                                    *)
(***************************************************************************)
MaxNameLen == 4      \* longest input string given to canonicalizeName alone
MaxPackages == 3     \* most rows of the package table
MaxFiles == 3        \* most rows of the file table

NULL == <<>>
Some(v) == <<v>>

(***************************************************************************)
(* Characters and strings.                                                 *)
(***************************************************************************)
Alphabet == {"A", "B", "a", "b", "-", "_", "."}

\* the byte value of a character (what SQLite's BINARY collation compares)
Code(c) ==
    CASE c = "-" -> 45
      [] c = "." -> 46
      [] c = "A" -> 65
      [] c = "B" -> 66
      [] c = "_" -> 95
      [] c = "a" -> 97
      [] c = "b" -> 98

RECURSIVE StringsUpTo(_)
StringsUpTo(n) ==
    IF n = 0 THEN {<<>>}
    ELSE LET S == StringsUpTo(n - 1)
         IN  S \cup {Append(s, c) : s \in {t \in S : Len(t) = n - 1}, c \in Alphabet}

\* unicode.ToLower on one character
LowerChar(c) ==
    CASE c = "A" -> "a"
      [] c = "B" -> "b"
      [] OTHER -> c

ToLowerIdentity(s) == s

\* strings.ToLower
ToLower(s) == [i \in 1..Len(s) |-> LowerChar(s[i])]

\* the character class [-_.]
IsSep(c) == c \in {"-", "_", "."}

\* the rest of s after the longest prefix matching [-_.]*
RECURSIVE SkipSeps(_)
SkipSeps(s) ==
    IF s # <<>> /\ IsSep(Head(s)) THEN SkipSeps(Tail(s)) ELSE s

RECURSIVE ReplaceEachSep(_)
ReplaceEachSep(s) ==
    IF s = <<>> THEN <<>>
    ELSE IF IsSep(Head(s)) THEN <<"-">> \o ReplaceEachSep(Tail(s))
    ELSE <<Head(s)>> \o ReplaceEachSep(Tail(s))

\* regexp.MustCompile(`[-_.]+`).ReplaceAllString(s, "-"): scanning from the
\* left, each leftmost-longest match of the pattern is replaced by "-"
RECURSIVE ReplaceAllString(_)
ReplaceAllString(s) ==
    IF s = <<>> THEN <<>>
    ELSE IF IsSep(Head(s)) THEN <<"-">> \o ReplaceAllString(SkipSeps(Tail(s)))
    ELSE <<Head(s)>> \o ReplaceAllString(Tail(s))

\* func canonicalizeName(name string) string
canonicalizeName(name) == ReplaceAllString(ToLower(name))

(***************************************************************************)
(* canonicalizeName on its own: the input is any string of the bound, and  *)
(* the function is applied to it, to its own result, and to a string that  *)
(* differs from the input only in letter case.                             *)
(***************************************************************************)
SwapCase(c) ==
    CASE c = "A" -> "a"
      [] c = "a" -> "A"
      [] c = "B" -> "b"
      [] c = "b" -> "B"
      [] OTHER -> c

CaseVariants(s) ==
    {v \in [1..Len(s) -> Alphabet] : \A i \in 1..Len(s) : v[i] \in {s[i], SwapCase(s[i])}}

NoCall == [pc |-> "none", in |-> <<>>, out |-> <<>>, again |-> <<>>,
           variant |-> <<>>, variantOut |-> <<>>]

CanonApply ==
    /\ call.pc = "input"
    /\ call' = [call EXCEPT !.pc = "applied", !.out = canonicalizeName(call.in)]

CanonReapply ==
    /\ call.pc = "applied"
    /\ call' = [call EXCEPT !.pc = "reapplied", !.again = canonicalizeName(call.out)]

CanonVariant ==
    /\ call.pc = "reapplied"
    /\ \E v \in CaseVariants(call.in) :
          call' = [call EXCEPT !.pc = "done", !.variant = v,
                               !.variantOut = canonicalizeName(v)]

(***************************************************************************)
(* The metadata store and the mirror root.  The server only reads them.    *)
(***************************************************************************)
Handlers == {"h1", "h2"}

MirrorRoot == "/data/pypi"

\* every row the package table may hold, in rowid order
PackageUniverse ==
    << [name |-> Some(<<"b">>), last_serial |-> 7],
       [name |-> Some(<<"a">>), last_serial |-> 42],
       [name |-> Some(<<"A", ".", "b">>), last_serial |-> 9],
       [name |-> NULL, last_serial |-> 5] >>

GoodURL(p) == [scheme |-> "https", host |-> "files.example", path |-> p]
\* a stored url that url.Parse rejects (the host's bracket is never closed)
BadURL(p) == [scheme |-> "https", host |-> "[::1", path |-> p]

FileRow(n, f, u, sz, rp, d) ==
    [name |-> Some(n), release |-> Some("1.0"), filename |-> Some(f), url |-> Some(u),
     size |-> sz, requires_python |-> rp, sha256_digest |-> Some(d)]

\* every row the file table may hold, in rowid order
FileUniverse ==
    << FileRow(<<"a">>, "a-1.whl", GoodURL("/p/1"), Some(10), NULL, "d1"),
       FileRow(<<"a">>, "a-2.whl", BadURL("/p/2"), Some(20), NULL, "d2"),
       FileRow(<<"a">>, "a-3.whl", GoodURL("/p/2"), Some(30), Some(">=3"), "d3"),
       FileRow(<<"b">>, "b-1.whl", GoodURL("/p/1"), NULL, NULL, "d4"),
       FileRow(<<"b">>, "b-2.whl", GoodURL("/p/3"), Some(50), NULL, "d5") >>

Paths == {"/p/1", "/p/2", "/p/3"}
StatOutcomes == {"ok", "notexist", "eperm"}

\* the rows of u whose index is in I, in the order of u
RECURSIVE Pick(_, _)
Pick(u, I) ==
    IF u = <<>> THEN <<>>
    ELSE LET rest == Pick(SubSeq(u, 1, Len(u) - 1), I)
         IN  IF Len(u) \in I THEN Append(rest, u[Len(u)]) ELSE rest

Range(s) == {s[i] : i \in 1..Len(s)}

PackageTables ==
    {Pick(PackageUniverse, I) :
        I \in {J \in SUBSET (1..Len(PackageUniverse)) : Cardinality(J) <= MaxPackages}}

FileTables ==
    {Pick(FileUniverse, I) :
        I \in {J \in SUBSET (1..Len(FileUniverse)) : Cardinality(J) <= MaxFiles}}

(***************************************************************************)
(* The queries.                                                            *)
(***************************************************************************)
RECURSIVE StrLess(_, _)
StrLess(s, t) ==
    IF t = <<>> THEN FALSE
    ELSE IF s = <<>> THEN TRUE
    ELSE IF Code(Head(s)) < Code(Head(t)) THEN TRUE
    ELSE IF Code(Head(s)) > Code(Head(t)) THEN FALSE
    ELSE StrLess(Tail(s), Tail(t))

\* SQLite's ascending order on a TEXT column: NULL first, then byte order
NameLess(a, b) ==
    IF a = NULL THEN b # NULL
    ELSE IF b = NULL THEN FALSE
    ELSE StrLess(a[1], b[1])

Remove(s, i) == SubSeq(s, 1, i - 1) \o SubSeq(s, i + 1, Len(s))

RECURSIVE OrderByName(_)
OrderByName(rows) ==
    IF rows = <<>> THEN <<>>
    ELSE LET i == CHOOSE k \in 1..Len(rows) :
                    /\ \A j \in 1..Len(rows) : ~NameLess(rows[j].name, rows[k].name)
                    /\ \A j \in 1..(k - 1) : NameLess(rows[k].name, rows[j].name)
         IN  <<rows[i]>> \o OrderByName(Remove(rows, i))

\* SQL's name=? : a NULL name equals nothing
NameEq(col, project) == col # NULL /\ col[1] = project

\* "select name from package order by name"
QueryPackageNames == OrderByName(package)

\* "select last_serial from package where name=?"
QueryPackage(project) ==
    SelectSeq(package, LAMBDA r : NameEq(r.name, project))

QueryFilesAll(project) == file

\* "select release,filename,url,size,requires_python,sha256_digest from file
\*  where name=?"
QueryFiles(project) ==
    SelectSeq(file, LAMBDA r : NameEq(r.name, project))

\* rows.Scan(&name) into a string: NULL cannot be converted
ScanNameOK(r) == r.name # NULL

\* rows.Scan(&release, &filename, &fileURL, &size, &requiresPython,
\* &sha256Digest): only requiresPython, a *string, accepts NULL
ScanFileOK(r) ==
    /\ r.release # NULL
    /\ r.filename # NULL
    /\ r.url # NULL
    /\ r.size # NULL
    /\ r.sha256_digest # NULL

\* url.Parse: nil and an error on a string it rejects, else the URL
urlParse(raw) ==
    IF raw.host = "[::1" THEN NULL ELSE Some([Path |-> raw.path])

\* path.Join(*directory, u.Path)
pathJoin(dir, p) == [root |-> dir, rel |-> p]

\* os.Stat
Stat(f) ==
    IF f.root = MirrorRoot /\ f.rel \in DOMAIN disk THEN disk[f.rel] ELSE "notexist"

fileExistsUnlessNotExist(f) == Stat(f) # "notexist"

\* func fileExists(f string) bool
fileExists(f) ==
    IF Stat(f) = "notexist" THEN FALSE ELSE Stat(f) = "ok"

\* html.EscapeString
EscapeString(s) == IF s = ">=3" THEN "&gt;=3" ELSE s

(***************************************************************************)
(* The response writer.                                                    *)
(***************************************************************************)
\* http.ResponseWriter.Write: the first write sends status 200 if none was set
Write(r, item) ==
    [r EXCEPT !.status = IF r.status = 0 THEN 200 ELSE r.status,
              !.body = Append(r.body, item)]

\* http.ResponseWriter.WriteHeader: ignored once a status was sent
WriteHeader(r, code) ==
    [r EXCEPT !.status = IF r.status = 0 THEN code ELSE r.status]

Idle ==
    [pc |-> "idle", mode |-> "none", seg |-> <<>>, project |-> <<>>, lastSerial |-> 0,
     cur |-> 0, fp |-> NULL, status |-> 0, body |-> <<>>,
     filesCount |-> 0, filesMissing |-> 0, logged |-> 0]

\* the project segments of the request paths /simple/<seg>/
Segments == {<<>>, <<"a">>, <<"b">>, <<"A", ".", "b">>, <<"a", "-", "b">>}

(***************************************************************************)
(* The handlers.  Every request runs on its own goroutine h; a handler     *)
(* step is taken only while the process is alive.                          *)
(***************************************************************************)
\* func simple: the router of /simple/<seg>/
simple(h, seg) ==
    /\ running
    /\ req[h].pc = "idle"
    /\ req' = [req EXCEPT ![h] =
                 IF seg = <<>>
                 THEN [Idle EXCEPT !.pc = "ixHead", !.mode = "index", !.seg = seg]
                 ELSE [Idle EXCEPT !.pc = "pjLookup", !.mode = "project", !.seg = seg,
                                   !.project = canonicalizeName(seg)]]
    /\ UNCHANGED <<package, file, disk, db, directory, running, call>>

\* simpleIndex: the page header, then the query
IndexHead(h) ==
    /\ running
    /\ req[h].pc = "ixHead"
    /\ req' = [req EXCEPT ![h] =
                 [Write(req[h], [t |-> "head", title |-> "Simple index"])
                    EXCEPT !.pc = "ixRow"]]
    /\ UNCHANGED <<package, file, disk, db, directory, running, call>>

\* simpleIndex: one turn of the rows loop; a row that does not scan is fatal
IndexRow(h) ==
    /\ running
    /\ req[h].pc = "ixRow"
    /\ req[h].cur < Len(QueryPackageNames)
    /\ LET r == QueryPackageNames[req[h].cur + 1]
       IN  IF ~ScanNameOK(r)
           THEN \* log.Fatal(err): the process exits
                /\ running' = FALSE
                /\ req' = [req EXCEPT ![h].logged = @ + 1]
           ELSE /\ req' = [req EXCEPT ![h] =
                             [Write(req[h], [t |-> "a",
                                             href |-> canonicalizeName(r.name[1]),
                                             text |-> r.name[1]])
                                EXCEPT !.cur = @ + 1]]
                /\ UNCHANGED running
    /\ UNCHANGED <<package, file, disk, db, directory, call>>

\* simpleIndex: the rows are exhausted, the page footer
IndexFoot(h) ==
    /\ running
    /\ req[h].pc = "ixRow"
    /\ req[h].cur = Len(QueryPackageNames)
    /\ req' = [req EXCEPT ![h] = [Write(req[h], [t |-> "foot"]) EXCEPT !.pc = "done"]]
    /\ UNCHANGED <<package, file, disk, db, directory, running, call>>

ProjectLookupHeadFirst(h) ==
    /\ running
    /\ req[h].pc = "pjLookup"
    /\ LET found == QueryPackage(req[h].project)
           w == Write(req[h], [t |-> "head", title |-> req[h].project])
       IN  req' = [req EXCEPT ![h] =
                     IF found = <<>>
                     THEN [WriteHeader(w, 403) EXCEPT !.pc = "done", !.logged = @ + 1]
                     ELSE [w EXCEPT !.pc = "pjRow",
                                    !.lastSerial = found[1].last_serial]]
    /\ UNCHANGED <<package, file, disk, db, directory, running, call>>

\* simpleProject: the package's last_serial, or 403
ProjectLookup(h) ==
    /\ running
    /\ req[h].pc = "pjLookup"
    /\ LET found == QueryPackage(req[h].project)
       IN  req' = [req EXCEPT ![h] =
                     IF found = <<>>
                     THEN [WriteHeader(req[h], 403) EXCEPT !.pc = "done", !.logged = @ + 1]
                     ELSE [req[h] EXCEPT !.pc = "pjHead",
                                         !.lastSerial = found[1].last_serial]]
    /\ UNCHANGED <<package, file, disk, db, directory, running, call>>

\* simpleProject: the page header, then the query
ProjectHead(h) ==
    /\ running
    /\ req[h].pc = "pjHead"
    /\ req' = [req EXCEPT ![h] =
                 [Write(req[h], [t |-> "head", title |-> req[h].project])
                    EXCEPT !.pc = "pjRow"]]
    /\ UNCHANGED <<package, file, disk, db, directory, running, call>>

\* simpleProject: one turn of the rows loop up to the path of the file.
\* A row that does not scan is logged and skipped.  url.Parse gives a nil
\* URL for a url it rejects, and u.Path then panics: net/http recovers the
\* panic, drops the connection and goes on serving.
ProjectRow(h) ==
    /\ running
    /\ req[h].pc = "pjRow"
    /\ req[h].cur < Len(QueryFiles(req[h].project))
    /\ LET r == QueryFiles(req[h].project)[req[h].cur + 1]
       IN  req' = [req EXCEPT ![h] =
                     IF ~ScanFileOK(r)
                     THEN [req[h] EXCEPT !.cur = @ + 1, !.logged = @ + 1]
                     ELSE LET u == urlParse(r.url[1])
                          IN  IF u = NULL
                              THEN [req[h] EXCEPT !.pc = "panic"]
                              ELSE [req[h] EXCEPT !.pc = "pjStat",
                                                  !.fp = Some(pathJoin(directory, u[1].Path))]]
    /\ UNCHANGED <<package, file, disk, db, directory, running, call>>

\* simpleProject: the presence filter on the row at hand, and its anchor
ProjectStat(h) ==
    /\ running
    /\ req[h].pc = "pjStat"
    /\ LET r == QueryFiles(req[h].project)[req[h].cur + 1]
           u == urlParse(r.url[1])[1]
           params == IF r.requires_python # NULL
                     THEN Some(EscapeString(r.requires_python[1]))
                     ELSE NULL
       IN  req' = [req EXCEPT ![h] =
                     IF fileExists(req[h].fp[1])
                     THEN [Write(req[h], [t |-> "a", href |-> u.Path,
                                          sha256 |-> r.sha256_digest[1],
                                          requires |-> params,
                                          text |-> r.filename[1]])
                             EXCEPT !.pc = "pjRow", !.cur = @ + 1, !.fp = NULL,
                                    !.filesCount = @ + 1]
                     ELSE [req[h] EXCEPT !.pc = "pjRow", !.cur = @ + 1, !.fp = NULL,
                                         !.filesMissing = @ + 1]]
    /\ UNCHANGED <<package, file, disk, db, directory, running, call>>

\* simpleProject: the rows are exhausted, the footer with the SERIAL sentinel
ProjectFoot(h) ==
    /\ running
    /\ req[h].pc = "pjRow"
    /\ req[h].cur = Len(QueryFiles(req[h].project))
    /\ req' = [req EXCEPT ![h] =
                 [Write(req[h], [t |-> "serial", n |-> req[h].lastSerial])
                    EXCEPT !.pc = "done"]]
    /\ UNCHANGED <<package, file, disk, db, directory, running, call>>

\* the response is finished (or the connection dropped after a panic) and
\* the goroutine ends; the next request of the connection starts afresh
Finish(h) ==
    /\ running
    /\ req[h].pc \in {"done", "panic"}
    /\ req' = [req EXCEPT ![h] = Idle]
    /\ UNCHANGED <<package, file, disk, db, directory, running, call>>

(***************************************************************************)
(* The specifications.                                                     *)
(***************************************************************************)
\* the state when main() starts serving: the store is opened, the mirror
\* root is set, no request is in flight.  Every file row names a package.
Init ==
    /\ package \in PackageTables
    /\ file \in FileTables
    /\ \A r \in Range(file) : \E p \in Range(package) : p.name = r.name
    /\ disk \in [Paths -> StatOutcomes]
    /\ db = "pypi.db"
    /\ directory = MirrorRoot
    /\ running = TRUE
    /\ req = [h \in Handlers |-> Idle]
    /\ call = NoCall

Next ==
    \E h \in Handlers :
        \/ \E seg \in Segments : simple(h, seg)
        \/ IndexHead(h)
        \/ IndexRow(h)
        \/ IndexFoot(h)
        \/ ProjectLookup(h)
        \/ ProjectHead(h)
        \/ ProjectRow(h)
        \/ ProjectStat(h)
        \/ ProjectFoot(h)
        \/ Finish(h)

Spec == Init /\ [][Next]_vars

InitCanon ==
    /\ package = <<>>
    /\ file = <<>>
    /\ disk = [p \in Paths |-> "notexist"]
    /\ db = "pypi.db"
    /\ directory = MirrorRoot
    /\ running = TRUE
    /\ req = [h \in Handlers |-> Idle]
    /\ \E s \in StringsUpTo(MaxNameLen) : call = [NoCall EXCEPT !.pc = "input", !.in = s]

NextCanon ==
    /\ (CanonApply \/ CanonReapply \/ CanonVariant)
    /\ UNCHANGED <<package, file, disk, db, directory, running, req>>

SpecCanon == InitCanon /\ [][NextCanon]_vars

(***************************************************************************)
(* What a response holds.                                                  *)
(***************************************************************************)
Anchors(b) == SelectSeq(b, LAMBDA x : x.t = "a")
Serials(b) == SelectSeq(b, LAMBDA x : x.t = "serial")

\* the handler has ended: it returned, or it panicked
Ended(h) == req[h].pc \in {"done", "panic"}

\* the package table holds a row for the (canonicalized) name
Known(project) == \E r \in Range(package) : NameEq(r.name, project)

\* a project request whose package was found
FoundProject(h) == req[h].mode = "project" /\ Known(req[h].project)

\* the rows of the file table that belong to the project and scan
ScannedRows(project) ==
    SelectSeq(file, LAMBDA r : NameEq(r.name, project) /\ ScanFileOK(r))

\* the stored url of the row parses and its path is a file of the mirror root
PresentRow(r) ==
    /\ urlParse(r.url[1]) # NULL
    /\ disk[urlParse(r.url[1])[1].Path] = "ok"

PresentRows(project) == SelectSeq(ScannedRows(project), PresentRow)

AnchorOf(r) ==
    [t |-> "a", href |-> r.url[1].path, sha256 |-> r.sha256_digest[1],
     requires |-> IF r.requires_python = NULL THEN NULL
                  ELSE Some(EscapeString(r.requires_python[1])),
     text |-> r.filename[1]]

\* the body ends with the one SERIAL sentinel of the page, carrying n
SerialFooter(b, n) ==
    /\ Len(Serials(b)) = 1
    /\ b # <<>>
    /\ b[Len(b)] = [t |-> "serial", n |-> n]

(***************************************************************************)
(* C1: in project mode, a found package's response contains the SERIAL     *)
(* sentinel exactly once, after all anchors, with the package's stored     *)
(* last_serial, however many file rows were filtered out.                  *)
(* The statement as claimed: it fails when a stored url does not parse,    *)
(* because the handler panics before the footer (see C5).                  *)
(***************************************************************************)
C1_SerialAlwaysEmitted ==
    \A h \in Handlers :
        (FoundProject(h) /\ Ended(h)) =>
            \E r \in Range(package) :
                /\ NameEq(r.name, req[h].project)
                /\ SerialFooter(req[h].body, r.last_serial)

\* what does hold: a handler that returns emits the footer
SerialEmittedOnReturn ==
    \A h \in Handlers :
        (FoundProject(h) /\ req[h].pc = "done") =>
            \E r \in Range(package) :
                /\ NameEq(r.name, req[h].project)
                /\ SerialFooter(req[h].body, r.last_serial)

(***************************************************************************)
(* C2: a project request whose canonicalized name matches no package row   *)
(* gets status 403, its response holds no anchor and no SERIAL sentinel,   *)
(* and the status is set before any body byte is written.                  *)
(***************************************************************************)
C2_UnknownProjectIs403 ==
    \A h \in Handlers :
        (req[h].mode = "project" /\ ~Known(req[h].project)) =>
            /\ req[h].body = <<>>
            /\ req[h].status \in {0, 403}
            /\ req[h].pc # "panic"
            /\ req[h].pc = "done" => req[h].status = 403

C2_Witness ==
    \E h \in Handlers :
        /\ req[h].mode = "project"
        /\ ~Known(req[h].project)
        /\ package # <<>>
        /\ req[h].pc = "done"
        /\ req[h].status = 403

(***************************************************************************)
(* C3: for a found package the emitted anchors are exactly the scanned     *)
(* file rows whose url path exists under the mirror root, one anchor per   *)
(* present row and none for an absent one, and at the end rendered count   *)
(* + missing count is the number of scanned rows.                          *)
(* The statement as claimed: it fails when a stored url does not parse     *)
(* (see C5): the rows after it are never looked at.                        *)
(***************************************************************************)
C3_AnchorsAreThePresentRows ==
    \A h \in Handlers :
        (FoundProject(h) /\ Ended(h)) =>
            LET rows == ScannedRows(req[h].project)
                present == PresentRows(req[h].project)
            IN  /\ Anchors(req[h].body) = [i \in 1..Len(present) |-> AnchorOf(present[i])]
                /\ req[h].filesCount + req[h].filesMissing = Len(rows)

\* what does hold: when every stored url of the project parses
AnchorsAreThePresentRowsIfUrlsParse ==
    \A h \in Handlers :
        (/\ FoundProject(h)
         /\ Ended(h)
         /\ \A r \in Range(ScannedRows(req[h].project)) : urlParse(r.url[1]) # NULL) =>
            LET rows == ScannedRows(req[h].project)
                present == PresentRows(req[h].project)
            IN  /\ req[h].pc = "done"
                /\ Anchors(req[h].body) = [i \in 1..Len(present) |-> AnchorOf(present[i])]
                /\ req[h].filesCount = Len(present)
                /\ req[h].filesCount + req[h].filesMissing = Len(rows)

(***************************************************************************)
(* C4: a row whose scan fails is logged and skipped in index rendering     *)
(* and in project rendering and is never fatal to the process: the server  *)
(* keeps running and the other rows of the page are rendered.              *)
(* The statement as claimed: simpleIndex calls log.Fatal on such a row.    *)
(***************************************************************************)
C4_MalformedRowNeverFatal ==
    /\ running
    /\ \A h \in Handlers :
          (req[h].mode = "index" /\ req[h].pc = "done") =>
              Len(Anchors(req[h].body)) =
                  Len(SelectSeq(package, ScanNameOK))

\* what does hold: project rendering logs and skips a row that does not scan
ProjectSkipsMalformedRow ==
    \A h \in Handlers :
        (FoundProject(h) /\ req[h].pc = "done") =>
            /\ req[h].logged =
                  Len(SelectSeq(QueryFiles(req[h].project), LAMBDA r : ~ScanFileOK(r)))
            /\ Anchors(req[h].body) =
                  [i \in 1..Len(PresentRows(req[h].project)) |->
                      AnchorOf(PresentRows(req[h].project)[i])]

(***************************************************************************)
(* C5: in project mode a file row whose stored url cannot be parsed is     *)
(* skipped without a link and the handler goes on: the other rows are      *)
(* rendered or counted as missing and the SERIAL footer is emitted.        *)
(* The statement as claimed: the code dereferences the nil URL.            *)
(***************************************************************************)
C5_UnparsableUrlRowSkipped ==
    \A h \in Handlers :
        /\ req[h].pc # "panic"
        /\ (FoundProject(h) /\ req[h].pc = "done") =>
              /\ Anchors(req[h].body) =
                    [i \in 1..Len(PresentRows(req[h].project)) |->
                        AnchorOf(PresentRows(req[h].project)[i])]
              /\ Len(Serials(req[h].body)) = 1

(***************************************************************************)
(* C6: for every stored package, the link ./<canonical-name> of the index  *)
(* page, requested as /simple/<canonical-name>/, yields the 200 project    *)
(* page with that package's last_serial, also when the stored name is not  *)
(* in canonical form.                                                      *)
(* The statement as claimed: the lookup compares the canonical name with   *)
(* the stored name, so a package stored as A.b is not found through a-b.   *)
(***************************************************************************)
C6_IndexLinksResolve ==
    \A r \in Range(package) : \A h \in Handlers :
        (/\ r.name # NULL
         /\ req[h].mode = "project"
         /\ req[h].seg = canonicalizeName(r.name[1])
         /\ req[h].pc = "done") =>
            /\ req[h].status = 200
            /\ SerialFooter(req[h].body, r.last_serial)

\* what does hold: the link of a package stored under its canonical name
CanonicalStoredNameResolves ==
    \A r \in Range(package) : \A h \in Handlers :
        (/\ r.name # NULL
         /\ r.name[1] = canonicalizeName(r.name[1])
         /\ req[h].mode = "project"
         /\ req[h].seg = canonicalizeName(r.name[1])
         /\ req[h].pc = "done") =>
            /\ req[h].status = 200
            /\ SerialFooter(req[h].body, r.last_serial)

(***************************************************************************)
(* C7: two requests for different known projects, handled concurrently,    *)
(* each get only their own project's serial and only anchors of their own  *)
(* project's present files, under every interleaving of the handlers'      *)
(* steps; a step changes the state of one request only, and the store      *)
(* handle and the mirror-root path never change after startup.             *)
(***************************************************************************)
OwnContentOnly(h) ==
    \A i \in 1..Len(req[h].body) :
        LET x == req[h].body[i]
        IN  /\ x.t = "head" => x.title = req[h].project
            /\ x.t = "serial" =>
                  \E r \in Range(package) :
                      NameEq(r.name, req[h].project) /\ x.n = r.last_serial
            /\ x.t = "a" =>
                  \E r \in Range(file) :
                      /\ NameEq(r.name, req[h].project)
                      /\ ScanFileOK(r)
                      /\ PresentRow(r)
                      /\ x = AnchorOf(r)

NoCrossTalk ==
    \A h \in Handlers : req[h].mode = "project" => OwnContentOnly(h)

OneRequestPerStep ==
    Cardinality({h \in Handlers : req'[h] # req[h]}) <= 1

SharedStateFrozen ==
    /\ db' = db
    /\ directory' = directory
    /\ package' = package
    /\ file' = file

C7_ConcurrentRequestsIsolated ==
    /\ []NoCrossTalk
    /\ [][OneRequestPerStep /\ SharedStateFrozen]_vars

C7_Witness ==
    \E g \in Handlers : \E h \in Handlers :
        /\ g # h
        /\ FoundProject(g)
        /\ FoundProject(h)
        /\ req[g].project # req[h].project
        /\ req[g].pc = "pjStat"
        /\ req[h].pc = "done"
        /\ Anchors(req[g].body) # <<>>
        /\ Anchors(req[h].body) # <<>>

(***************************************************************************)
(* C8: index mode always answers 200, also for an empty package table,     *)
(* with exactly one anchor per package row, in ascending order of the      *)
(* stored name, each with target ./<canonicalizeName(stored name)> and     *)
(* the stored name as its text.                                            *)
(* The statement as claimed: it fails on a package row whose name does     *)
(* not scan, which ends the process before any answer (see C4).            *)
(***************************************************************************)
IsAscending(names) ==
    \A i \in 1..Len(names) : \A j \in 1..Len(names) :
        i < j => ~StrLess(names[j], names[i])

C8_IndexListsEveryPackage ==
    \A h \in Handlers :
        req[h].mode = "index" =>
            /\ running
            /\ req[h].pc = "done" =>
                  LET a == Anchors(req[h].body)
                  IN  /\ req[h].status = 200
                      /\ Len(a) = Len(package)
                      /\ \A r \in Range(package) :
                            \E i \in 1..Len(a) :
                                /\ r.name = Some(a[i].text)
                                /\ a[i].href = canonicalizeName(a[i].text)
                      /\ IsAscending([i \in 1..Len(a) |-> a[i].text])

\* what does hold: the listing of the rows whose name scans
IndexListsScannedPackages ==
    \A h \in Handlers :
        (req[h].mode = "index" /\ req[h].pc = "done") =>
            LET a == Anchors(req[h].body)
            IN  /\ req[h].status = 200
                /\ Len(a) = Len(package)
                /\ \A r \in Range(package) :
                      \E i \in 1..Len(a) :
                          /\ r.name = Some(a[i].text)
                          /\ a[i].href = canonicalizeName(a[i].text)
                /\ IsAscending([i \in 1..Len(a) |-> a[i].text])

(***************************************************************************)
(* C9: canonicalizeName returns the lowercase form of its input with       *)
(* every maximal run of '-', '_' and '.' replaced by one '-' and every     *)
(* other character kept in place; the result holds no '_', no '.', no      *)
(* upper-case letter and no two adjacent '-'.                              *)
(***************************************************************************)
UpperCase == {"A", "B"}

LowerOf(c) == IF c \in UpperCase THEN CHOOSE l \in Alphabet \ UpperCase : SwapCase(l) = c
              ELSE c

\* the positions of s that survive: every character that is not a
\* separator, and the first separator of each maximal run
Kept(s) == {i \in 1..Len(s) : IsSep(s[i]) => (i = 1 \/ ~IsSep(s[i - 1]))}

RunsCollapsed(s) ==
    [k \in 1..Cardinality(Kept(s)) |->
        LET i == CHOOSE j \in Kept(s) : Cardinality({m \in Kept(s) : m <= j}) = k
        IN  IF IsSep(s[i]) THEN "-" ELSE LowerOf(s[i])]

C9_CanonicalForm ==
    call.pc \in {"applied", "reapplied", "done"} =>
        /\ call.out = RunsCollapsed(call.in)
        /\ \A i \in 1..Len(call.out) :
              /\ call.out[i] \notin {"_", "."} \cup UpperCase
              /\ i > 1 => ~(call.out[i] = "-" /\ call.out[i - 1] = "-")

C9_Witness ==
    /\ call.pc = "applied"
    /\ call.in = <<"A", "_", ".", "B">>
    /\ call.out = <<"a", "-", "b">>

(***************************************************************************)
(* C10: canonicalizeName is idempotent, and two strings that differ only   *)
(* in letter case have the same canonical name.                            *)
(***************************************************************************)
C10_IdempotentCaseInsensitive ==
    /\ call.pc \in {"reapplied", "done"} => call.again = call.out
    /\ call.pc = "done" => call.variantOut = call.out

C10_Witness ==
    /\ call.pc = "done"
    /\ call.in = <<"A", "-", "_", "b">>
    /\ call.variant = <<"a", "-", "_", "B">>
    /\ call.again = <<"a", "-", "b">>
    /\ call.variantOut = <<"a", "-", "b">>

(***************************************************************************)
(* C11: fileExists is true only when the stat of the path succeeds: a      *)
(* does-not-exist error and every other stat error (permission denied)     *)
(* both give false, so a row whose check fails is counted as missing and   *)
(* gets no anchor, and the check never makes the handler panic.            *)
(***************************************************************************)
\* the rows of the project the loop is done with, among those that scan
RowsDone(h) ==
    SelectSeq(SubSeq(QueryFiles(req[h].project), 1, req[h].cur), ScanFileOK)

StatSucceeds(r) == disk[r.url[1].path] = "ok"
StatFails(r) == disk[r.url[1].path] \in {"notexist", "eperm"}

C11_StatFailureIsMissing ==
    \A h \in Handlers :
        (req[h].mode = "project" /\ req[h].pc \in {"pjRow", "pjStat", "done", "panic"}) =>
            LET good == SelectSeq(RowsDone(h), StatSucceeds)
                bad == SelectSeq(RowsDone(h), StatFails)
            IN  /\ req[h].filesCount = Len(good)
                /\ req[h].filesMissing = Len(bad)
                /\ Anchors(req[h].body) = [i \in 1..Len(good) |-> AnchorOf(good[i])]
                /\ req[h].pc = "panic" =>
                      urlParse(QueryFiles(req[h].project)[req[h].cur + 1].url[1]) = NULL

C11_Witness ==
    \E h \in Handlers :
        /\ FoundProject(h)
        /\ req[h].pc = "done"
        /\ \E r \in Range(RowsDone(h)) : disk[r.url[1].path] = "eperm"
        /\ \E r \in Range(RowsDone(h)) : disk[r.url[1].path] = "ok"
        /\ req[h].filesMissing = 1
        /\ req[h].filesCount = 1

====
